---- MODULE Spec2Model ----
(***************************************************************************)
(* A model of teeth_agent/agent.py: the command execution engine of        *)
(* TeethAgent (execute_command under command_lock, mode binding, the busy  *)
(* check, result recording) and the TeethAgentHeartbeater loop.            *)
(***************************************************************************)
EXTENDS Integers, Sequences, FiniteSets, TLC

(* ---------------------------------------------------------------- bounds *)

\* Number of execute_command calls issued in one behaviour.
MaxCalls == 2

(* --------------------------------------------------------------- strings *)

\* Strings are sequences of characters, so that split and lower are computed.
LowerChar(c) == IF c = "D" THEN "d" ELSE IF c = "C" THEN "c" ELSE IF c = "U" THEN "u" ELSE c

\* str.lower()
Lower(s) == [i \in 1..Len(s) |-> LowerChar(s[i])]

\* Index of the first '.' of s, 0 when there is none.
FirstDot(s) ==
    IF \E i \in 1..Len(s) : s[i] = "."
    THEN CHOOSE i \in 1..Len(s) : s[i] = "." /\ \A j \in 1..(i - 1) : s[j] # "."
    ELSE 0

\* command_name.split('.', 1): at most one split, at the first separator.
SplitOnce(s) ==
    IF FirstDot(s) = 0
    THEN <<s>>
    ELSE <<SubSeq(s, 1, FirstDot(s) - 1), SubSeq(s, FirstDot(s) + 1, Len(s))>>

\* The number of '.' separators of a command name.
CountDots(s) == Cardinality({i \in 1..Len(s) : s[i] = "."})

(* ------------------------------------------------------------ the inputs *)

Threads == {"t1", "t2"}

\* Command names the callers pass: no separator, one, two, an empty name, an
\* upper-case mode prefix, a second mode and an unregistered mode.
CommandNames ==
    { <<"d", ".", "x">>,
      <<"D", ".", "x">>,
      <<"c", ".", "x">>,
      <<"u", ".", "x">>,
      <<"d", "x">>,
      <<"d", ".", "x", ".", "y">>,
      <<>> }

\* The keyword arguments of a call.
Kwargs == {"k1", "k2"}

\* What mode.execute does with a command: returns a finished result, returns
\* an asynchronous result that is still running, raises InvalidContentError,
\* or raises another Exception.
ExecOutcomes == {"sync", "async", "InvalidContentError", "Exception"}

(* ------------------------------------------ plugins and command results *)

None == "None"

\* The value of an unbound mode slot and of an unset local result.
NoMode == [none |-> TRUE]
NoResult == [none |-> TRUE]

\* The mode plugins registered under the namespace 'teeth_agent.modes', by
\* their (lower-case) entry point name; each mode object carries a name.
ModeRegistry == (<<"d">> :> [name |-> <<"D">>]) @@ (<<"c">> :> [name |-> <<"c">>])

\* What _load_mode_implementation raises when no plugin has the name.
LoadFailed == [raised |-> "RuntimeError"]

\* driver.DriverManager(name=mode_name.lower(), ...).driver, or a raised error.
LoadExactCase(mode_name) ==
    IF mode_name \in DOMAIN ModeRegistry
    THEN ModeRegistry[mode_name]
    ELSE LoadFailed

_load_mode_implementation(mode_name) ==
    IF Lower(mode_name) \in DOMAIN ModeRegistry
    THEN ModeRegistry[Lower(mode_name)]
    ELSE LoadFailed

\* base.SyncCommandResult(command_name, command_params, success, result_or_error)
SyncCommandResult(id, command_name, command_params, success, error) ==
    [id |-> id, command_name |-> command_name, command_params |-> command_params,
     done |-> TRUE, success |-> success, error |-> error]

\* A result an asynchronous command returns while its work continues.
AsyncCommandResult(id, command_name, command_params) ==
    [id |-> id, command_name |-> command_name, command_params |-> command_params,
     done |-> FALSE, success |-> FALSE, error |-> None]

\* CommandResult.is_done()
is_done(r) == r.done

(* ----------------------------------------------------------------- state *)

VARIABLES
    mode_implementation,  \* TeethAgent.mode_implementation: NoMode or the loaded mode
    command_results,      \* TeethAgent.command_results, in insertion order
    command_lock,         \* TeethAgent.command_lock: None or the thread holding it
    pc,                   \* where each caller of execute_command is
    call,                 \* the arguments of each caller's execute_command
    result,               \* the local variable result of each caller
    outcome,              \* how each caller's execute_command ended
    obs,                  \* what each call observed (history variable, see NoObs)
    ncalls,               \* execute_command calls issued so far
    next_id,              \* source of fresh result ids
    acq                   \* the order of lock acquisitions (history variable, see NoAcq)

cmdvars == <<mode_implementation, command_results, command_lock, pc, call, result,
             outcome, obs, ncalls, next_id, acq>>

VARIABLES
    hb_pc,        \* the heartbeater thread: "unstarted", "wait", "beat" or "exited"
    stop_event,   \* TeethAgentHeartbeater.stop_event
    error_delay,  \* TeethAgentHeartbeater.error_delay, in units of 10^-5 s
    interval,     \* the local variable interval of the loop, in units of 10^-5 s
    main_pc,      \* where the thread that runs TeethAgent.run is
    hb_obs        \* what the heartbeats did so far (history variable, see NoHbObs)

hbvars == <<hb_pc, stop_event, error_delay, interval, main_pc, hb_obs>>

vars == <<cmdvars, hbvars>>

NoCall == [command_name |-> <<>>, kwargs |-> None]
NoOutcome == [type |-> None, msg |-> <<>>]
Raised(type, msg) == [type |-> type, msg |-> msg]
Returned == [type |-> "result", msg |-> <<>>]

\* The ids of a history, in order.
Ids(h) == [i \in 1..Len(h) |-> h[i].id]

\* What a call has observed so far:
\*   overlapped  another call's mode.execute was running when this call was issued
\*   entry_ids, entry_mode  the history's ids and the mode slot when it took the lock
\*   entry_exec  another call's mode.execute was running when it took the lock
\*   busy        whether the last result was not done at the busy check: "yes",
\*               "no", or None before the check
\*   invoked     whether it has invoked mode.execute
\*   exec        what mode.execute did (None before it ended)
\*   exit_ids, exit_mode    the history's ids and the mode slot when it left
\*   exit_exec   another call's mode.execute was running when it left
\*   ticket      the call was the ticket-th to take the lock (0 before it did)
NoObs ==
    [overlapped |-> FALSE, entry_ids |-> <<>>, entry_mode |-> NoMode,
     entry_exec |-> FALSE, busy |-> None, invoked |-> FALSE, exec |-> None,
     exit_ids |-> <<>>, exit_mode |-> NoMode, exit_exec |-> FALSE, ticket |-> 0]

\* The order of lock acquisitions:
\*   count   how many times command_lock was taken
\*   of      for the id of each recorded result, the ticket of the call that
\*           recorded it
NoAcq == [count |-> 0, of |-> <<>>]

\* Another caller than t is inside mode.execute.
OtherExecuting(t) == \E u \in Threads \ {t} : pc[u] = "executing"

\* TeethAgent.get_mode_name
get_mode_name(mi) == IF mi # NoMode THEN mi.name ELSE <<"N", "O", "N", "E">>

\* TeethAgent.list_command_results
list_command_results(h) == h

\* What get_command_result raises for an id the history does not hold.
NotFound == [raised |-> "RequestedObjectNotFoundError"]

\* TeethAgent.get_command_result
get_command_result(h, result_id) ==
    IF \E i \in 1..Len(h) : h[i].id = result_id
    THEN h[CHOOSE i \in 1..Len(h) : h[i].id = result_id]
    ELSE NotFound

InitCmd ==
    /\ mode_implementation = NoMode
    /\ command_results = <<>>
    /\ command_lock = None
    /\ pc = [t \in Threads |-> "idle"]
    /\ call = [t \in Threads |-> NoCall]
    /\ result = [t \in Threads |-> NoResult]
    /\ outcome = [t \in Threads |-> NoOutcome]
    /\ obs = [t \in Threads |-> NoObs]
    /\ ncalls = 0
    /\ next_id = 1
    /\ acq = NoAcq

(* ------------------------------------------------------- execute_command *)

\* A caller invokes execute_command(command_name, **kwargs) and reaches the
\* with statement.
Call(t) ==
    /\ pc[t] \in {"idle", "returned"}
    /\ ncalls < MaxCalls
    /\ \E n \in CommandNames, k \in Kwargs :
          call' = [call EXCEPT ![t] = [command_name |-> n, kwargs |-> k]]
    /\ pc' = [pc EXCEPT ![t] = "acquire"]
    /\ outcome' = [outcome EXCEPT ![t] = NoOutcome]
    /\ result' = [result EXCEPT ![t] = NoResult]
    /\ obs' = [obs EXCEPT ![t] =
                 [NoObs EXCEPT !.overlapped = OtherExecuting(t)]]
    /\ ncalls' = ncalls + 1
    /\ UNCHANGED <<mode_implementation, command_results, command_lock, next_id, acq>>
    /\ UNCHANGED hbvars

\* threading.Lock.acquire proceeds when no thread holds the lock, and blocks
\* while one does.
LockAlwaysFree == TRUE

LockFree == command_lock = None

\* with self.command_lock: (entry)
Acquire(t) ==
    /\ pc[t] = "acquire"
    /\ LockFree
    /\ command_lock' = t
    /\ pc' = [pc EXCEPT ![t] = "split"]
    /\ obs' = [obs EXCEPT ![t].entry_ids = Ids(command_results),
                          ![t].entry_mode = mode_implementation,
                          ![t].entry_exec = OtherExecuting(t),
                          ![t].ticket = acq.count + 1]
    /\ acq' = [acq EXCEPT !.count = @ + 1]
    /\ UNCHANGED <<mode_implementation, command_results, call, result, outcome,
                   ncalls, next_id>>
    /\ UNCHANGED hbvars

\* An exception leaves the with block: the lock is released and the error
\* reaches the caller. (obs' is written by the raising action.)
RaiseKeepsLock(t, error) ==
    /\ pc' = [pc EXCEPT ![t] = "returned"]
    /\ outcome' = [outcome EXCEPT ![t] = error]
    /\ command_lock' = command_lock

Raise(t, error) ==
    /\ pc' = [pc EXCEPT ![t] = "returned"]
    /\ outcome' = [outcome EXCEPT ![t] = error]
    /\ command_lock' = None

\* The call leaves with the history and the mode slot as they are after the step.
Leave(t, o, h, mi) ==
    [o EXCEPT !.exit_ids = Ids(h), !.exit_mode = mi, !.exit_exec = OtherExecuting(t)]

\* _split_command accepts a name when split('.', 1) yields two parts.
SplitOkAlways(command_name) == TRUE

SplitOk(command_name) == Len(SplitOnce(command_name)) = 2

mode_part(t) == SplitOnce(call[t].command_name)[1]
command_part(t) == SplitOnce(call[t].command_name)[2]

\* mode_part, command_part = self._split_command(command_name)
Split(t) ==
    /\ pc[t] = "split"
    /\ IF SplitOk(call[t].command_name)
       THEN /\ pc' = [pc EXCEPT ![t] = "verify"]
            /\ UNCHANGED <<outcome, command_lock, obs>>
       ELSE /\ Raise(t, Raised("InvalidCommandError",
                               <<"Command name must be of the form <mode>.<name>">>))
            /\ obs' = [obs EXCEPT ![t] = Leave(t, @, command_results, mode_implementation)]
    /\ UNCHANGED <<mode_implementation, command_results, call, result, ncalls, next_id,
                   acq>>
    /\ UNCHANGED hbvars

\* The except clause of _verify_mode: a failed load becomes InvalidCommandError.
LoadErrorUncaught(mode_name) == Raised("RuntimeError", <<"No driver found">>)

LoadError(mode_name) == Raised("InvalidCommandError", <<"Unknown mode: ", mode_name>>)

\* The elif of _verify_mode: the bound mode's name, lower-cased, against the
\* mode part as the caller wrote it.
ModeMismatchNever(mi, mode_name) == FALSE

ModeMismatch(mi, mode_name) == Lower(get_mode_name(mi)) # mode_name

\* self._verify_mode(mode_part, command_part)
Verify(t) ==
    /\ pc[t] = "verify"
    /\ IF mode_implementation = NoMode
       THEN IF _load_mode_implementation(mode_part(t)) # LoadFailed
            THEN /\ mode_implementation' = _load_mode_implementation(mode_part(t))
                 /\ pc' = [pc EXCEPT ![t] = "busy"]
                 /\ UNCHANGED <<outcome, command_lock, obs>>
            ELSE /\ Raise(t, LoadError(mode_part(t)))
                 /\ obs' = [obs EXCEPT ![t] = Leave(t, @, command_results, mode_implementation)]
                 /\ UNCHANGED mode_implementation
       ELSE IF ModeMismatch(mode_implementation, mode_part(t))
            THEN /\ Raise(t, Raised("InvalidCommandError",
                                    <<"Agent is already in ",
                                      get_mode_name(mode_implementation), " mode">>))
                 /\ obs' = [obs EXCEPT ![t] = Leave(t, @, command_results, mode_implementation)]
                 /\ UNCHANGED mode_implementation
            ELSE /\ pc' = [pc EXCEPT ![t] = "busy"]
                 /\ UNCHANGED <<mode_implementation, outcome, command_lock, obs>>
    /\ UNCHANGED <<command_results, call, result, ncalls, next_id, acq>>
    /\ UNCHANGED hbvars

\* The last inserted result of a history exists and is not done.
LastNotDone(h) == Len(h) > 0 /\ ~h[Len(h)].done

\* The busy check: the history is not empty and its last result is not done.
BusyOffByOne(h) == Len(h) > 1 /\ ~is_done(h[Len(h)])

Busy(h) == Len(h) > 0 /\ ~is_done(h[Len(h)])

\* The busy check, then the call of self.mode_implementation.execute.
BusyCheck(t) ==
    /\ pc[t] = "busy"
    /\ IF Busy(command_results)
       THEN /\ Raise(t, Raised("CommandExecutionError", <<"agent is busy">>))
            /\ obs' = [obs EXCEPT ![t] =
                         Leave(t, [@ EXCEPT !.busy = IF LastNotDone(command_results)
                                                     THEN "yes" ELSE "no"],
                               command_results, mode_implementation)]
       ELSE /\ pc' = [pc EXCEPT ![t] = "executing"]
            /\ obs' = [obs EXCEPT ![t].busy = IF LastNotDone(command_results)
                                               THEN "yes" ELSE "no",
                                  ![t].invoked = TRUE]
            /\ UNCHANGED <<outcome, command_lock>>
    /\ UNCHANGED <<mode_implementation, command_results, call, result, ncalls, next_id,
                   acq>>
    /\ UNCHANGED hbvars

\* The result the except Exception clause builds from a raised error.
FailureResultBareName(id, command_name, kwargs, e) ==
    SyncCommandResult(id, SplitOnce(command_name)[2], kwargs, FALSE, e)

FailureResult(id, command_name, kwargs, e) ==
    SyncCommandResult(id, command_name, kwargs, FALSE, e)

\* Whether an error raised by mode.execute leaves execute_command: the first
\* except clause re-raises InvalidContentError, the second catches the rest.
PropagatesNothing(o) == FALSE

Propagates(o) == o = "InvalidContentError"

\* mode.execute returns or raises; the try statement handles what it raised.
ExecuteReturn(t) ==
    /\ pc[t] = "executing"
    /\ \E o \in ExecOutcomes :
          IF o \in {"InvalidContentError", "Exception"} /\ Propagates(o)
          THEN /\ Raise(t, Raised(o, <<>>))
               /\ obs' = [obs EXCEPT ![t] =
                            Leave(t, [@ EXCEPT !.exec = o], command_results, mode_implementation)]
               /\ UNCHANGED <<result, next_id>>
          ELSE /\ result' = [result EXCEPT ![t] =
                     CASE o = "sync" ->
                            SyncCommandResult(next_id, command_part(t), call[t].kwargs,
                                              TRUE, None)
                       [] o = "async" ->
                            AsyncCommandResult(next_id, command_part(t), call[t].kwargs)
                       [] OTHER ->
                            FailureResult(next_id, call[t].command_name, call[t].kwargs, o)]
               /\ next_id' = next_id + 1
               /\ pc' = [pc EXCEPT ![t] = "insert"]
               /\ obs' = [obs EXCEPT ![t].exec = o]
               /\ UNCHANGED <<outcome, command_lock>>
    /\ UNCHANGED <<mode_implementation, command_results, call, ncalls, acq>>
    /\ UNCHANGED hbvars

\* self.command_results[result.id] = result: an OrderedDict keeps a key it
\* already holds in its place and puts a new key last.
RecordFirst(h, r) == <<r>> \o h

Record(h, r) ==
    IF \E i \in 1..Len(h) : h[i].id = r.id
    THEN [i \in 1..Len(h) |-> IF h[i].id = r.id THEN r ELSE h[i]]
    ELSE Append(h, r)

\* The result is recorded and returned; the with block ends.
Insert(t) ==
    /\ pc[t] = "insert"
    /\ command_results' = Record(command_results, result[t])
    /\ pc' = [pc EXCEPT ![t] = "returned"]
    /\ outcome' = [outcome EXCEPT ![t] = Returned]
    /\ command_lock' = None
    /\ obs' = [obs EXCEPT ![t] = Leave(t, @, command_results', mode_implementation)]
    /\ acq' = [acq EXCEPT !.of = (result[t].id :> obs[t].ticket) @@ @]
    /\ UNCHANGED <<mode_implementation, call, result, ncalls, next_id>>
    /\ UNCHANGED hbvars

\* The background work of an asynchronous result finishes: is_done() turns true.
Complete(i) ==
    /\ i \in 1..Len(command_results)
    /\ ~command_results[i].done
    /\ command_results' = [command_results EXCEPT ![i].done = TRUE, ![i].success = TRUE]
    /\ UNCHANGED <<mode_implementation, command_lock, pc, call, result, outcome,
                   obs, ncalls, next_id, acq>>
    /\ UNCHANGED hbvars

(* ----------------------------------------------------------- heartbeater *)

\* Class attributes of TeethAgentHeartbeater. Delays are in units of 10^-5 s,
\* which keeps every product of the backoff exact; multipliers are in tenths.
min_jitter_multiplier == 3
max_jitter_multiplier == 6
initial_delay == 100000
max_delay == 30000000
backoff_factor == 27

Min(a, b) == IF a <= b THEN a ELSE b

\* What api.heartbeat does: returns a deadline, or raises.
HeartbeatOutcomes == {"ok", "error"}

\* The deadline a successful heartbeat returns, less the time of the call: in
\* the past, now, or ahead.
ServerLeads == {-200000, 0, 6000000}

\* The time between time.time() in do_heartbeat and time.time() in run.
Elapsed == {0, 50000}

\* The values random.uniform(min_jitter_multiplier, max_jitter_multiplier) is
\* drawn from: the two ends of the range.
JitterMultipliers == {min_jitter_multiplier, max_jitter_multiplier}

\* What the heartbeats did so far:
\*   attempts   whether do_heartbeat was ever called
\*   last_ok    the last completed attempt succeeded
\*   streak     consecutive failures up to the last attempt: 0, 1, or 2 for more
\*   prev_used, last_used   the delay added to now to synthesize the deadline in
\*              the failure before the last one, and in the last one
\*   in_flight_at_stop      a heartbeat was in flight when stop() set the event
\*   mode       the mode name the last attempt read from the agent
\*   held_at_start   the ticket of the execute_command call that held
\*              command_lock when the last attempt started (0 if it was free)
\*   under_lock the last attempt started and ended while one and the same
\*              execute_command call held command_lock
\*   gap        next_heartbeat_by - time.time() after the last attempt (kept
\*              until the next attempt starts)
\*   slept      how long the wait before the attempt in flight lasted
NoHbObs ==
    [attempts |-> FALSE, last_ok |-> FALSE, streak |-> 0, prev_used |-> 0,
     last_used |-> 0, in_flight_at_stop |-> FALSE, mode |-> None,
     held_at_start |-> 0, under_lock |-> FALSE, gap |-> 0, slept |-> 0]

InitHb ==
    /\ hb_pc = "unstarted"
    /\ stop_event = FALSE
    /\ error_delay = initial_delay
    /\ interval = 0
    /\ main_pc = "init"
    /\ hb_obs = NoHbObs

\* TeethAgent.run up to server.start(): the heartbeater thread is started and
\* enters run with interval = 0.
RunStart ==
    /\ main_pc = "init"
    /\ hb_pc = "unstarted"
    /\ hb_pc' = "wait"
    /\ interval' = 0
    /\ main_pc' = "serving"
    /\ UNCHANGED <<stop_event, error_delay, hb_obs>>
    /\ UNCHANGED cmdvars

\* server.start() returns.
ServerReturns ==
    /\ main_pc = "serving"
    /\ main_pc' = "stop"
    /\ UNCHANGED <<hb_pc, stop_event, error_delay, interval, hb_obs>>
    /\ UNCHANGED cmdvars

\* server.start() raises: the except BaseException clause is entered.
ServerRaises ==
    /\ main_pc = "serving"
    /\ main_pc' = "server_stop"
    /\ UNCHANGED <<hb_pc, stop_event, error_delay, interval, hb_obs>>
    /\ UNCHANGED cmdvars

\* server.stop() in the except clause returns.
ServerStop ==
    /\ main_pc = "server_stop"
    /\ main_pc' = "stop"
    /\ UNCHANGED <<hb_pc, stop_event, error_delay, interval, hb_obs>>
    /\ UNCHANGED cmdvars

\* server.stop() in the except clause raises (CherryPy's stop re-raises socket
\* errors, and an interrupt can arrive inside it): the error leaves run, which
\* does not reach self.heartbeater.stop().
ServerStopRaises ==
    /\ main_pc = "server_stop"
    /\ main_pc' = "raised"
    /\ UNCHANGED <<hb_pc, stop_event, error_delay, interval, hb_obs>>
    /\ UNCHANGED cmdvars

\* TeethAgentHeartbeater.stop: self.stop_event.set()
StopSet ==
    /\ main_pc = "stop"
    /\ stop_event' = TRUE
    /\ main_pc' = "join"
    /\ hb_obs' = [hb_obs EXCEPT !.in_flight_at_stop = hb_pc = "beat"]
    /\ UNCHANGED <<hb_pc, error_delay, interval>>
    /\ UNCHANGED cmdvars

\* Thread.join returns once the thread's run has ended.
JoinsAtOnce == TRUE

Joined == hb_pc = "exited"

\* TeethAgentHeartbeater.stop: return self.join(); run returns after it.
StopJoin ==
    /\ main_pc = "join"
    /\ Joined
    /\ main_pc' = "returned"
    /\ UNCHANGED <<hb_pc, stop_event, error_delay, interval, hb_obs>>
    /\ UNCHANGED cmdvars

\* The loop condition: stop_event.wait(interval) is true when the event is set.
LoopEnds == stop_event

\* Whether the heartbeater takes agent.command_lock. run and do_heartbeat call
\* stop_event.wait, api.heartbeat and the agent's getters (get_agent_mac_addr,
\* get_agent_url, get_mode_name); none of them has a with self.command_lock.
HbTakesLock == TRUE

HbLocks == FALSE

\* The heartbeater's step has no lock to wait for.
HbCanStep == HbLocks => command_lock = None

\* How long stop_event.wait(timeout) lasts when the event stays clear: the
\* timeout, and no time at all when the timeout is zero or negative.
TimedOutAfter(timeout) == IF timeout > 0 THEN timeout ELSE 0

\* The ticket of the call holding command_lock, 0 when it is free.
Holder == IF command_lock = None THEN 0 ELSE acq.count

\* while not self.stop_event.wait(interval): the wait ends with the event set
\* and the loop (and the thread) ends, or it times out and do_heartbeat is
\* called.
HbWait ==
    /\ hb_pc = "wait"
    /\ HbCanStep
    /\ IF LoopEnds
       THEN /\ hb_pc' = "exited"
            /\ UNCHANGED hb_obs
       ELSE /\ hb_pc' = "beat"
            /\ hb_obs' = [hb_obs EXCEPT !.attempts = TRUE,
                                        !.mode = get_mode_name(mode_implementation),
                                        !.held_at_start = Holder,
                                        !.under_lock = FALSE,
                                        !.slept = TimedOutAfter(interval),
                                        !.gap = 0]
    /\ UNCHANGED <<stop_event, error_delay, interval, main_pc>>
    /\ UNCHANGED cmdvars

\* min(self.error_delay * self.backoff_factor, self.max_delay)
NextErrorDelayUncapped(d) == (d * backoff_factor) \div 10

NextErrorDelay(d) == Min((d * backoff_factor) \div 10, max_delay)

\* interval = (next_heartbeat_by - time.time()) * interval_multiplier
IntervalClamped(gap, multiplier) ==
    IF gap > 0 THEN (gap * multiplier) \div 10 ELSE 0

Interval(gap, multiplier) == (gap * multiplier) \div 10

\* The error delay after a successful heartbeat.
DelayAfterSuccess(d) == initial_delay

\* except Exception as e: what api.heartbeat raises is an Exception and is
\* caught in do_heartbeat; an error that is not caught ends run and the thread.
CaughtNothing(o) == FALSE

Caught(o) == o = "error"

\* The attempt in flight started and ends under one holder of command_lock.
UnderLock == hb_obs.held_at_start # 0 /\ Holder = hb_obs.held_at_start

\* do_heartbeat ends (api.heartbeat returned a deadline or raised) and the loop
\* body computes the next interval.
HbBeat ==
    /\ hb_pc = "beat"
    /\ HbCanStep
    /\ \E o \in HeartbeatOutcomes, e \in Elapsed, m \in JitterMultipliers :
          IF o = "ok"
          THEN \E lead \in ServerLeads :
                  /\ error_delay' = DelayAfterSuccess(error_delay)
                  /\ interval' = Interval(lead - e, m)
                  /\ hb_obs' = [hb_obs EXCEPT !.last_ok = TRUE, !.streak = 0,
                                              !.under_lock = UnderLock,
                                              !.gap = lead - e, !.slept = 0]
                  /\ hb_pc' = "wait"
          ELSE IF Caught(o)
          THEN /\ error_delay' = NextErrorDelay(error_delay)
               /\ interval' = Interval(error_delay - e, m)
               /\ hb_obs' = [hb_obs EXCEPT !.last_ok = FALSE,
                                           !.streak = Min(@ + 1, 2),
                                           !.prev_used = IF hb_obs.streak = 0 THEN 0
                                                         ELSE hb_obs.last_used,
                                           !.last_used = error_delay,
                                           !.under_lock = UnderLock,
                                           !.gap = error_delay - e, !.slept = 0]
               /\ hb_pc' = "wait"
          ELSE /\ hb_pc' = "exited"
               /\ hb_obs' = [hb_obs EXCEPT !.last_ok = FALSE]
               /\ UNCHANGED <<error_delay, interval>>
    /\ UNCHANGED <<stop_event, main_pc>>
    /\ UNCHANGED cmdvars

(* -------------------------------------------------------- specifications *)

Init == InitCmd /\ InitHb


Next ==
    \/ \E t \in Threads : Call(t)
    \/ \E t \in Threads : Acquire(t)
    \/ \E t \in Threads : Split(t)
    \/ \E t \in Threads : Verify(t)
    \/ \E t \in Threads : BusyCheck(t)
    \/ \E t \in Threads : ExecuteReturn(t)
    \/ \E t \in Threads : Insert(t)
    \/ \E i \in 1..MaxCalls : Complete(i)

\* Callers of execute_command and the modes' background work.
Spec == Init /\ [][Next]_vars

\* The next step of a call that is not waiting for the lock.
Advance(t) ==
    Split(t) \/ Verify(t) \/ BusyCheck(t) \/ ExecuteReturn(t) \/ Insert(t)

\* The same, where a thread that can run does run: a free lock with threads
\* waiting for it is taken by one of them, the call holding the lock goes on,
\* and every mode.execute call returns or raises.
SpecFair ==
    Spec /\ WF_vars(\E t \in Threads : Acquire(t) \/ Advance(t))

NextHb ==
    \/ RunStart
    \/ ServerReturns
    \/ ServerRaises
    \/ ServerStop
    \/ ServerStopRaises
    \/ StopSet
    \/ StopJoin
    \/ HbWait
    \/ HbBeat

\* TeethAgent.run and the heartbeater thread.
SpecHb == Init /\ [][NextHb]_vars

\* The same, where a wait on stop_event that can end does end: a timeout is
\* finite and the thread is scheduled.
SpecHbFair == SpecHb /\ WF_vars(HbWait)

\* The first execute_command call of the agent.
FirstCall(t) == ncalls = 0 /\ Call(t)

NextBoth ==
    \/ RunStart
    \/ HbWait
    \/ HbBeat
    \/ \E t \in Threads : FirstCall(t)
    \/ \E t \in Threads : Acquire(t)
    \/ \E t \in Threads : Split(t)
    \/ \E t \in Threads : Verify(t)
    \/ \E t \in Threads : BusyCheck(t)
    \/ \E t \in Threads : ExecuteReturn(t)
    \/ \E t \in Threads : Insert(t)
    \/ \E i \in 1..MaxCalls : Complete(i)

\* The heartbeater thread beside an execute_command call, while the server
\* serves.
SpecBoth == Init /\ [][NextBoth]_vars

(* ----------------------------------------------------------------- claims *)

\* The caller is inside the with block of execute_command.
InSection(t) == pc[t] \in {"split", "verify", "busy", "executing", "insert"}

\* The call of t is through name parsing; it is through mode verification
\* (which a name without '.' never reaches).
PastSplit(t) == pc[t] \in {"verify", "busy", "executing", "insert", "returned"}
PastVerify(t) ==
    /\ pc[t] \in {"busy", "executing", "insert", "returned"}
    /\ CountDots(call[t].command_name) >= 1

\* The call of t raised something without invoking the mode and left the
\* history and the mode slot as it found them.
FailedUntouched(t, error) ==
    /\ pc[t] = "returned"
    /\ outcome[t] = error
    /\ ~obs[t].invoked
    /\ obs[t].exit_ids = obs[t].entry_ids
    /\ obs[t].exit_mode = obs[t].entry_mode

\* The entry point name a loaded mode is registered under.
KeyOf(mi) == CHOOSE k \in DOMAIN ModeRegistry : ModeRegistry[k] = mi

\* C1: at most one caller at a time is inside the section of execute_command
\* that verifies the mode, checks for busy, calls mode.execute and records the
\* result, and that caller holds command_lock; two mode.execute calls never
\* overlap.
C1_MutualExclusion ==
    /\ \A t, u \in Threads : InSection(t) /\ InSection(u) => t = u
    /\ \A t \in Threads : InSection(t) => command_lock = t
    /\ Cardinality({t \in Threads : pc[t] = "executing"}) <= 1

\* C1 witness: one caller is inside mode.execute while another waits for the lock.
C1_Witness ==
    \E t, u \in Threads : t # u /\ pc[t] = "executing" /\ pc[u] = "acquire"

\* C2 (state part): a call that found the agent bound to a mode and names
\* another mode prefix than the one the bound mode is registered under has
\* failed with InvalidCommandError 'Agent is already in <name> mode' at mode
\* verification, invoking no mode and leaving the history and the slot alone;
\* a call that gets past verification runs on the mode its prefix resolves to.
C2_Rejected ==
    \A t \in Threads :
        /\ ( /\ PastVerify(t)
             /\ obs[t].entry_mode # NoMode
             /\ mode_part(t) # KeyOf(obs[t].entry_mode) )
           => FailedUntouched(t, Raised("InvalidCommandError",
                                        <<"Agent is already in ",
                                          get_mode_name(obs[t].entry_mode), " mode">>))
        /\ (pc[t] \in {"busy", "executing", "insert"})
           => /\ mode_implementation # NoMode
              /\ Lower(mode_part(t)) = KeyOf(mode_implementation)

\* C2: the bound-mode slot is monotonic (once bound it never changes, neither
\* back to unbound nor to a second mode), and once it is bound every call with
\* a different mode prefix is rejected as C2_Rejected says.
C2_BoundModeMonotonic ==
    /\ [][mode_implementation # NoMode => mode_implementation' = mode_implementation]_vars
    /\ []C2_Rejected

\* C2 witness: on an agent bound by an earlier call that recorded a result, a
\* call for another mode has been rejected.
C2_Witness ==
    \E t \in Threads :
        /\ pc[t] = "returned"
        /\ obs[t].entry_mode # NoMode
        /\ Len(obs[t].entry_ids) > 0
        /\ mode_part(t) = <<"c">>
        /\ outcome[t].type = "InvalidCommandError"

\* C3: a call that passed name parsing and mode verification and found, at the
\* busy check, a non-empty history whose last result is not done has failed
\* with CommandExecutionError 'agent is busy', has not invoked mode.execute and
\* has left the history unchanged.
C3_BusyCheck ==
    \A t \in Threads :
        obs[t].busy = "yes"
        => FailedUntouched(t, Raised("CommandExecutionError", <<"agent is busy">>))

\* C3 witness: a call was rejected as busy behind an unfinished asynchronous result.
C3_Witness ==
    \E t \in Threads :
        /\ pc[t] = "returned"
        /\ obs[t].busy = "yes"
        /\ outcome[t].type = "CommandExecutionError"
        /\ LastNotDone(command_results)

\* The call of t was issued while another call's mode.execute was running, and
\* names the mode that call runs on.
SecondCall(t) ==
    /\ obs[t].overlapped
    /\ CountDots(call[t].command_name) = 1
    /\ mode_part(t) = KeyOf(mode_implementation)

\* C4 as claimed: a call for the same mode issued while another call's
\* mode.execute is running is rejected with 'agent is busy' while that execute
\* is still running: until it is rejected the other execute has not ended, and
\* it ends busy.
C4_AsClaimed ==
    \A t \in Threads :
        SecondCall(t)
        => /\ pc[t] # "returned" => OtherExecuting(t)
           /\ pc[t] = "returned"
              => outcome[t].type = "CommandExecutionError" /\ obs[t].exit_exec

\* C4 amended: a call issued while another call's mode.execute is running waits
\* for command_lock: it neither enters the section nor ends, with 'agent is
\* busy' or otherwise, while that execute is running; once inside it is rejected
\* as busy exactly when the last recorded result is not done at its busy check,
\* and is dispatched to the mode when that result is done.
C4_SecondCallWaits ==
    \A t \in Threads :
        obs[t].overlapped
        => /\ ~obs[t].entry_exec
           /\ ~obs[t].exit_exec
           /\ InSection(t) => ~OtherExecuting(t)
           /\ (pc[t] = "returned" /\ outcome[t].type = "CommandExecutionError")
              <=> (pc[t] = "returned" /\ obs[t].busy = "yes")
           /\ obs[t].busy = "no" => obs[t].invoked

\* C4 witness: a call for the same mode issued during another call's execute
\* ended 'agent is busy', behind the unfinished result that call recorded.
C4_Witness ==
    \E t \in Threads :
        /\ SecondCall(t)
        /\ pc[t] = "returned"
        /\ outcome[t] = Raised("CommandExecutionError", <<"agent is busy">>)

\* C5 as claimed: a call whose command name does not contain exactly one '.'
\* never gets past name parsing and fails with InvalidCommandError, resolving
\* and invoking no mode and leaving the history unchanged.
C5_AsClaimed ==
    \A t \in Threads :
        (pc[t] \notin {"idle", "acquire", "split"} /\ CountDots(call[t].command_name) # 1)
        => FailedUntouched(t, Raised("InvalidCommandError",
                                     <<"Command name must be of the form <mode>.<name>">>))

\* C5 amended: a call whose command name contains no '.' never gets past name
\* parsing and fails with InvalidCommandError, resolving and invoking no mode
\* and leaving the history unchanged; a name with a '.' is split at its first
\* '.', whatever follows, and goes on to mode verification.
C5_NoSeparator ==
    \A t \in Threads :
        /\ (pc[t] \notin {"idle", "acquire", "split"} /\ CountDots(call[t].command_name) = 0)
           => FailedUntouched(t, Raised("InvalidCommandError",
                                        <<"Command name must be of the form <mode>.<name>">>))
        /\ (PastSplit(t) /\ CountDots(call[t].command_name) >= 1 /\ ~PastVerify(t))
           => pc[t] = "verify"
        /\ (pc[t] = "returned" /\ CountDots(call[t].command_name) >= 1)
           => outcome[t].msg # <<"Command name must be of the form <mode>.<name>">>

\* C5 witness: a name without a separator was rejected on an agent with a
\* recorded result.
C5_Witness ==
    \E t \in Threads :
        /\ pc[t] = "returned"
        /\ call[t].command_name = <<"d", "x">>
        /\ outcome[t].type = "InvalidCommandError"
        /\ Len(command_results) > 0

\* C6: on an unbound agent a call whose mode name the registry cannot resolve
\* fails with InvalidCommandError 'Unknown mode: <name>' at mode verification;
\* the agent is still unbound (get_mode_name is 'NONE') when the call leaves,
\* the history is unchanged and no mode was invoked.
C6_UnknownMode ==
    \A t \in Threads :
        ( /\ PastVerify(t)
          /\ obs[t].entry_mode = NoMode
          /\ Lower(mode_part(t)) \notin DOMAIN ModeRegistry )
        => /\ FailedUntouched(t, Raised("InvalidCommandError",
                                        <<"Unknown mode: ", mode_part(t)>>))
           /\ get_mode_name(obs[t].exit_mode) = <<"N", "O", "N", "E">>

\* C6 witness: after a call failed with 'Unknown mode', a later call naming a
\* registered mode bound that mode.
C6_Witness ==
    \E t, u \in Threads :
        /\ pc[t] = "returned"
        /\ outcome[t] = Raised("InvalidCommandError", <<"Unknown mode: ", <<"u">>>>)
        /\ pc[u] = "returned"
        /\ obs[u].entry_mode = NoMode
        /\ obs[u].exit_mode = ModeRegistry[<<"d">>]
        /\ mode_implementation = ModeRegistry[<<"d">>]

\* C7: when mode.execute raised an error other than InvalidContentError, the
\* call does not fail: it returns a done, failed result that carries the full
\* command name, the call's arguments and the error, the result is appended to
\* the history, and get_command_result(result.id) returns that same result.
C7_FailureConverted ==
    \A t \in Threads :
        obs[t].exec = "Exception"
        => /\ pc[t] \in {"insert", "returned"}
           /\ result[t] = [id |-> result[t].id,
                           command_name |-> call[t].command_name,
                           command_params |-> call[t].kwargs,
                           done |-> TRUE, success |-> FALSE, error |-> "Exception"]
           /\ pc[t] = "returned"
              => /\ outcome[t] = Returned
                 /\ obs[t].exit_ids = Append(obs[t].entry_ids, result[t].id)
                 /\ get_command_result(command_results, result[t].id) = result[t]

\* C7 witness: a converted failure was returned and a later result recorded
\* after it.
C7_Witness ==
    \E t \in Threads :
        /\ pc[t] = "returned"
        /\ obs[t].exec = "Exception"
        /\ Len(command_results) = 2
        /\ command_results[1] = result[t]

\* C8: when mode.execute raised InvalidContentError the call raises that error,
\* creates and records no result and leaves the history as it found it; and no
\* other error raised by mode.execute leaves execute_command.
C8_InvalidContentPropagates ==
    \A t \in Threads :
        /\ obs[t].exec = "InvalidContentError"
           => /\ pc[t] = "returned"
              /\ outcome[t] = Raised("InvalidContentError", <<>>)
              /\ result[t] = NoResult
              /\ obs[t].exit_ids = obs[t].entry_ids
        /\ (pc[t] = "returned" /\ obs[t].invoked /\ outcome[t] # Returned)
           => obs[t].exec = "InvalidContentError"

\* C8 witness: InvalidContentError left a call made on a non-empty history.
C8_Witness ==
    \E t \in Threads :
        /\ pc[t] = "returned"
        /\ obs[t].exec = "InvalidContentError"
        /\ Len(obs[t].entry_ids) > 0

\* C9: error_delay always lies between initial_delay and max_delay; over
\* consecutive failures the delay added to now to synthesize the deadline does
\* not decrease and never exceeds max_delay; after a successful heartbeat
\* error_delay is initial_delay again.
C9_Backoff ==
    /\ initial_delay <= error_delay /\ error_delay <= max_delay
    /\ hb_obs.streak >= 1 => hb_obs.last_used <= max_delay
    /\ hb_obs.streak >= 2 => hb_obs.prev_used <= hb_obs.last_used
    /\ hb_obs.last_ok => error_delay = initial_delay

\* C9 witness: a heartbeat succeeded after a run of failures that had reached
\* max_delay.
C9_Witness ==
    /\ hb_obs.last_ok
    /\ hb_obs.last_used = max_delay
    /\ hb_obs.prev_used = max_delay
    /\ error_delay = initial_delay

\* C10: once stop() has returned (run returns right after it) the heartbeater
\* thread has exited, and no do_heartbeat starts from then on.
C10_NoBeatAfterStop ==
    /\ [](main_pc = "returned" => hb_pc = "exited")
    /\ [][main_pc = "returned" => hb_pc' # "beat"]_vars

\* TeethAgent.run has left, by returning or by raising.
RunLeft == main_pc \in {"returned", "raised"}

\* C10 witness: stop() returned after a heartbeat that was in flight when the
\* event was set had completed.
C10_Witness ==
    /\ main_pc = "returned"
    /\ hb_pc = "exited"
    /\ hb_obs.in_flight_at_stop
    /\ hb_obs.streak = 1

\* C11: run() never leaves, by returning or by raising, while the heartbeater
\* thread is still running: whenever run has left, the heartbeater has exited.
C11_AsClaimed == RunLeft => hb_pc = "exited"

\* C12: on a bound agent a call whose mode name equals the bound mode's name
\* when compared ignoring case passes mode verification and goes on to the busy
\* check; only a name that differs ignoring case is rejected.
C12_AsClaimed ==
    \A t \in Threads :
        ( /\ PastVerify(t)
          /\ obs[t].entry_mode # NoMode
          /\ Lower(mode_part(t)) = Lower(get_mode_name(obs[t].entry_mode)) )
        => (pc[t] = "busy" \/ obs[t].busy # None)

\* The command name of t's call is malformed: it has no '.' separator.
Malformed(t) == pc[t] # "idle" /\ CountDots(call[t].command_name) = 0

\* C13 as claimed: a call with a malformed command name never holds
\* command_lock and never stands at the lock while another call holds it.
C13_AsClaimed ==
    \A t \in Threads :
        Malformed(t)
        => /\ command_lock # t
           /\ pc[t] = "acquire" => command_lock = None

\* C13 amended: a call with a malformed command name fails with
\* InvalidCommandError before any mode work but inside command_lock: it is
\* parsed only while it holds the lock, so it waits while another call holds
\* the lock and neither enters nor fails while another call's mode.execute is
\* running.
C13_MalformedWaits ==
    \A t \in Threads :
        Malformed(t)
        => /\ pc[t] \in {"acquire", "split", "returned"}
           /\ pc[t] = "split" => (command_lock = t /\ ~OtherExecuting(t))
           /\ ~obs[t].entry_exec
           /\ pc[t] = "returned"
              => /\ FailedUntouched(t, Raised("InvalidCommandError",
                                       <<"Command name must be of the form <mode>.<name>">>))
                 /\ ~obs[t].exit_exec

\* C13 witness: a malformed call issued while another call's mode.execute was
\* running has been rejected, after that execute ended.
C13_Witness ==
    \E t \in Threads :
        /\ Malformed(t)
        /\ obs[t].overlapped
        /\ pc[t] = "returned"
        /\ outcome[t].type = "InvalidCommandError"

\* Sequence p is an initial part of sequence q.
IsPrefix(p, q) == Len(p) <= Len(q) /\ SubSeq(q, 1, Len(p)) = p

\* C14 (state part): a call that returned a result put exactly that one entry
\* at the end of the history it found when it took the lock, and the entries of
\* the history stand in the order in which their calls took the lock.
C14_InAcquisitionOrder ==
    /\ \A t \in Threads :
          (pc[t] = "returned" /\ outcome[t] = Returned)
          => obs[t].exit_ids = Append(obs[t].entry_ids, result[t].id)
    /\ \A i, j \in 1..Len(command_results) :
          i < j => acq.of[command_results[i].id] < acq.of[command_results[j].id]

\* C14: the history is append-only (every step leaves the entries it holds in
\* place and in order, adding at most one at the end) and ordered by lock
\* acquisition.
C14_AppendOnly ==
    /\ [][/\ IsPrefix(Ids(command_results), Ids(command_results'))
          /\ Len(command_results') <= Len(command_results) + 1]_vars
    /\ []C14_InAcquisitionOrder

\* C14 witness: two results are recorded, the first by the call that took the
\* lock first, the second by a call that was issued while the first held it.
C14_Witness ==
    /\ Len(command_results) = 2
    /\ acq.of[command_results[1].id] = 1
    /\ acq.of[command_results[2].id] = 2
    /\ \E t \in Threads :
          /\ obs[t].overlapped /\ obs[t].ticket = 2
          /\ pc[t] = "returned" /\ outcome[t] = Returned

\* C15: the heartbeater never holds command_lock and never waits for it: its
\* next step (ending the wait, ending an attempt) can be taken while a call
\* holds the lock, and while a heartbeat is in flight a call that is not
\* waiting for another call can take its next step.
C15_HeartbeaterLockFree ==
    /\ command_lock \in Threads \cup {None}
    /\ hb_pc = "wait" => ENABLED HbWait
    /\ hb_pc = "beat" => ENABLED HbBeat
    /\ hb_pc = "beat"
       => \A t \in Threads :
             /\ (pc[t] = "acquire" /\ command_lock = None) => ENABLED Acquire(t)
             /\ InSection(t) => ENABLED Advance(t)

\* C15 witness: a heartbeat attempt started and completed while a call was
\* inside mode.execute, holding the lock.
C15_Witness ==
    /\ hb_obs.under_lock
    /\ hb_pc = "wait"
    /\ \E t \in Threads : pc[t] = "executing" /\ command_lock = t

\* The loop body has computed an interval and the wait on it has not ended.
Computed == hb_pc = "wait" /\ hb_obs.attempts

\* C16 as stated: the computed interval is never below zero, and is zero when
\* the deadline is at or before the current time.
C16_AsClaimed ==
    /\ interval >= 0
    /\ (Computed /\ hb_obs.gap <= 0) => interval = 0

\* C16, amended: the interval is the jittered gap with the sign of the gap (it
\* is negative when the deadline is before the current time), and the wait on
\* a zero or negative interval takes no time: the next attempt is immediate.
C16_NegativeIntervalNoSleep ==
    /\ Computed
       => /\ \E m \in JitterMultipliers :
                /\ 10 * interval <= hb_obs.gap * m
                /\ hb_obs.gap * m < 10 * (interval + 1)
          /\ hb_obs.gap < 0 <=> interval < 0
          /\ hb_obs.gap = 0 => interval = 0
    /\ hb_pc = "beat"
       => /\ hb_obs.slept >= 0
          /\ interval <= 0 => hb_obs.slept = 0
          /\ interval > 0 => hb_obs.slept = interval

\* C16 witness: an attempt was started at once on a negative interval.
C16_Witness ==
    /\ hb_pc = "beat"
    /\ interval < 0
    /\ hb_obs.slept = 0
    /\ ~stop_event

\* The last attempt failed and the loop is waiting on the interval it computed.
FailedWaiting == Computed /\ ~hb_obs.last_ok

\* C17: a failing heartbeat never ends the loop: the attempt ends back in the
\* loop's wait with the deadline now + error_delay (less the time elapsed since),
\* the thread ends only once stop() has set the event, and after a failed
\* attempt another attempt starts unless stop() is called.
C17_FailureAbsorbed ==
    /\ [][(hb_pc = "beat" /\ hb_pc' # "beat") => hb_pc' = "wait"]_vars
    /\ [](hb_pc = "exited" => stop_event)
    /\ [](FailedWaiting => \E e \in Elapsed : hb_obs.gap = hb_obs.last_used - e)
    /\ (FailedWaiting ~> (hb_pc = "beat" \/ stop_event))

\* C17 witness: a new attempt is in flight after two failed ones, with no stop
\* requested.
C17_Witness ==
    /\ hb_pc = "beat"
    /\ ~hb_obs.last_ok
    /\ hb_obs.streak = 2
    /\ ~stop_event

\* The positions of the history whose result is not done.
Incomplete(h) == {i \in 1..Len(h) : ~is_done(h[i])}

\* C18: with results that never go back from done to not done, at most one
\* result of the history is incomplete and it is the last one; and while a call
\* is inside mode.execute, or about to record its result, every recorded
\* result is done: at most one command is in flight.
C18_OneInFlight ==
    /\ Cardinality(Incomplete(command_results)) <= 1
    /\ Incomplete(command_results) \subseteq {Len(command_results)}
    /\ \A t \in Threads :
          pc[t] \in {"executing", "insert"} => Incomplete(command_results) = {}

\* C18 witness: the history holds a completed asynchronous result followed by
\* an incomplete one.
C18_Witness ==
    /\ Len(command_results) = 2
    /\ Incomplete(command_results) = {2}
    /\ command_results[1].success

\* The mode part of t's command names a registered mode, in any letter case.
Resolves(t) == Lower(mode_part(t)) \in DOMAIN ModeRegistry

\* C19: a call that finds the agent unbound and names a registered mode binds
\* the agent when the mode is verified, and the agent is bound to that mode when
\* the call leaves, with a result or with a propagated InvalidContentError; a
\* non-empty history implies a bound agent.
C19_BoundAtResolution ==
    /\ \A t \in Threads :
          (PastVerify(t) /\ obs[t].entry_mode = NoMode /\ Resolves(t))
          => /\ mode_implementation = ModeRegistry[Lower(mode_part(t))]
             /\ pc[t] = "returned"
                => /\ obs[t].exit_mode = ModeRegistry[Lower(mode_part(t))]
                   /\ \/ outcome[t] = Returned
                      \/ outcome[t].type = "InvalidContentError"
    /\ Len(command_results) > 0 => mode_implementation # NoMode

\* C19 witness: the agent is bound and its history is empty, after a call on
\* the unbound agent ended in a propagated InvalidContentError.
C19_Witness ==
    /\ mode_implementation # NoMode
    /\ command_results = <<>>
    /\ \E t \in Threads :
          /\ pc[t] = "returned"
          /\ obs[t].entry_mode = NoMode
          /\ outcome[t].type = "InvalidContentError"
          /\ obs[t].exit_mode = mode_implementation

\* The ways a call leaves execute_command.
ExitKinds ==
    {"InvalidCommandError", "CommandExecutionError", "InvalidContentError"}

\* C20: command_lock is released on every way out of execute_command (a
\* returned result, InvalidCommandError, CommandExecutionError, a propagated
\* InvalidContentError): a call that has left does not hold it, it is free
\* whenever no call is inside the with block, and no call waits for it for
\* ever (a call waiting for it acquires it), given that every mode.execute
\* call returns or raises.
C20_LockReleased ==
    /\ [](\A t \in Threads :
            pc[t] = "returned"
            => /\ command_lock # t
               /\ outcome[t] = Returned \/ outcome[t].type \in ExitKinds)
    /\ []((\A t \in Threads : ~InSection(t)) => command_lock = None)
    /\ \A t \in Threads : []<>(pc[t] # "acquire")

\* C20 witness: a call that waited for the lock while another call held it has
\* left through the busy check, the other call has left with its result, and
\* the lock is free.
C20_Witness ==
    /\ command_lock = None
    /\ \E t, u \in Threads :
          /\ pc[t] = "returned" /\ obs[t].overlapped
          /\ outcome[t].type = "CommandExecutionError"
          /\ pc[u] = "returned" /\ outcome[u] = Returned

====
